---- MODULE Spec2Model ----
(***************************************************************************)
(* Model of the expense tracker: the JSON file store (tracker/storage.py), *)
(* the service layer on top of it (tracker/service.py) and the input       *)
(* validation (tracker/validation.py).                                     *)
(*                                                                         *)
(* Strings that the code inspects (dates, ids, categories, notes) are      *)
(* sequences of one-character strings, so that replace, startswith, split, *)
(* strip and lower are computed as the code computes them.  Amounts are    *)
(* integers counting thousandths of a currency unit (0.004 is 4, 10.0 is   *)
(* 10000), so that rounding to 2 fractional digits is visible.             *)
(***************************************************************************)
EXTENDS Integers, Sequences, FiniteSets, TLC

(***************************************************************************)
(* Bounds of the model.                                                    *)
(***************************************************************************)
MaxAdds == 2
MaxEdits == 1

(***************************************************************************)
(* Characters and strings.                                                 *)
(***************************************************************************)
Digits == <<"0", "1", "2", "3", "4", "5", "6", "7", "8", "9">>

IsDigit(c) == \E i \in 1..10 : Digits[i] = c

DigitVal(c) == (CHOOSE i \in 1..10 : Digits[i] = c) - 1

\* ASCII code of the characters the model's strings are made of.
Ord(c) ==
    CASE c = " " -> 32
      [] c = "-" -> 45
      [] IsDigit(c) -> 48 + DigitVal(c)
      [] c = ":" -> 58
      [] c = "E" -> 69
      [] c = "F" -> 70
      [] c = "P" -> 80
      [] c = "T" -> 84
      [] c = "X" -> 88
      [] c = "a" -> 97
      [] c = "d" -> 100
      [] c = "e" -> 101
      [] c = "f" -> 102
      [] c = "n" -> 110
      [] c = "o" -> 111
      [] c = "p" -> 112
      [] c = "r" -> 114
      [] c = "t" -> 116
      [] c = "x" -> 120
      [] c = "y" -> 121

\* str.lower() on one character.
LowerChar(c) ==
    CASE c = "E" -> "e"
      [] c = "F" -> "f"
      [] c = "P" -> "p"
      [] c = "T" -> "t"
      [] c = "X" -> "x"
      [] OTHER -> c

\* str.lower()
Lower(s) == [i \in 1..Len(s) |-> LowerChar(s[i])]

RECURSIVE LStrip(_)
LStrip(s) == IF s # <<>> /\ Head(s) = " " THEN LStrip(Tail(s)) ELSE s

RECURSIVE RStrip(_)
RStrip(s) ==
    IF s # <<>> /\ s[Len(s)] = " " THEN RStrip(SubSeq(s, 1, Len(s) - 1)) ELSE s

\* str.strip()
Strip(s) == RStrip(LStrip(s))

\* str.startswith(p)
StartsWith(s, p) == Len(p) <= Len(s) /\ SubSeq(s, 1, Len(p)) = p

\* str.replace('-', '')
RECURSIVE RemoveDashes(_)
RemoveDashes(s) ==
    IF s = <<>> THEN <<>>
    ELSE IF Head(s) = "-" THEN RemoveDashes(Tail(s))
    ELSE <<Head(s)>> \o RemoveDashes(Tail(s))

\* str.split('-'): the sequence of the parts between the dashes.
RECURSIVE SplitDash(_)
SplitDash(s) ==
    IF \A i \in 1..Len(s) : s[i] # "-" THEN <<s>>
    ELSE LET k == CHOOSE i \in 1..Len(s) :
                      s[i] = "-" /\ \A j \in 1..(i - 1) : s[j] # "-"
         IN <<SubSeq(s, 1, k - 1)>> \o SplitDash(SubSeq(s, k + 1, Len(s)))

AllDigits(s) == s # <<>> /\ \A i \in 1..Len(s) : IsDigit(s[i])

\* The value of a string of decimal digits.
RECURSIVE DigitsValue(_)
DigitsValue(s) ==
    IF s = <<>> THEN 0
    ELSE 10 * DigitsValue(SubSeq(s, 1, Len(s) - 1)) + DigitVal(s[Len(s)])

\* The decimal digits of a natural number.
RECURSIVE ToDigits(_)
ToDigits(n) ==
    IF n < 10 THEN <<Digits[n + 1]>>
    ELSE ToDigits(n \div 10) \o <<Digits[(n % 10) + 1]>>

\* Python's {n:04d}: zero-padded to at least 4 digits.
RECURSIVE ZeroPad(_, _)
ZeroPad(s, w) == IF Len(s) >= w THEN s ELSE ZeroPad(<<"0">> \o s, w)

Format04d(n) == ZeroPad(ToDigits(n), 4)

\* Python's comparison of two strings: s < t.
RECURSIVE StrLess(_, _)
StrLess(s, t) ==
    IF t = <<>> THEN FALSE
    ELSE IF s = <<>> THEN TRUE
    ELSE IF Head(s) # Head(t) THEN Ord(Head(s)) < Ord(Head(t))
    ELSE StrLess(Tail(s), Tail(t))

(***************************************************************************)
(* tracker/validation.py                                                   *)
(***************************************************************************)
IsLeap(y) == (y % 4 = 0 /\ y % 100 # 0) \/ y % 400 = 0

DaysInMonth(y, m) ==
    IF m = 2 THEN (IF IsLeap(y) THEN 29 ELSE 28)
    ELSE IF m \in {4, 6, 9, 11} THEN 30 ELSE 31

\* The month directive %m of strptime: 1[0-2] | 0[1-9] | [1-9].
MonthToken(s) == AllDigits(s) /\ Len(s) \in {1, 2} /\ DigitsValue(s) \in 1..12

\* The day directive %d of strptime: 3[01] | [12]\d | 0[1-9] | [1-9] | " "[1-9].
DayToken(s) ==
    \/ AllDigits(s) /\ Len(s) \in {1, 2} /\ DigitsValue(s) \in 1..31
    \/ Len(s) = 2 /\ s[1] = " " /\ IsDigit(s[2]) /\ s[2] # "0"

DayValue(s) == IF s[1] = " " THEN DigitVal(s[2]) ELSE DigitsValue(s)

\* validate_date: datetime.strptime(date_str, "%Y-%m-%d") succeeds.  %Y is
\* exactly four digits; month and day may be written without a leading zero.
validate_date(s) ==
    LET parts == SplitDash(s) IN
    /\ Len(parts) = 3
    /\ AllDigits(parts[1]) /\ Len(parts[1]) = 4 /\ DigitsValue(parts[1]) >= 1
    /\ MonthToken(parts[2])
    /\ DayToken(parts[3])
    /\ DayValue(parts[3]) <= DaysInMonth(DigitsValue(parts[1]), DigitsValue(parts[2]))

validate_amount(v) == v > 0

validate_category(s) == s # <<>> /\ Strip(s) # <<>>

Today == <<"t", "o", "d", "a", "y">>

Ok(v) == [err |-> "none", value |-> v]

Raise(kind) == [err |-> kind, value |-> <<>>]

\* format_date: an empty string (or None) and 'today' give the current date;
\* a valid date is returned unchanged.
format_date(s, today) ==
    IF s = <<>> \/ Lower(s) = Today THEN Ok(today)
    ELSE IF ~validate_date(s) THEN Raise("InvalidInput")
    ELSE Ok(s)

\* The half-cent amounts, among those below 0.1 and 10.005, whose double lies
\* above the tie, so that round(x, 2) goes up: round(0.005, 2) = 0.01 and
\* round(10.005, 2) = 10.01, but round(0.015, 2) = 0.01.
TieRoundsUp == {5, 25, 35, 55, 65, 85, 95, 10005}

\* round(x, 2) on an amount below 0.1, on 10.005, or without a half-cent tie.
Round2(v) ==
    LET r == v % 10 IN
    IF r < 5 THEN v - r
    ELSE IF r > 5 THEN v - r + 10
    ELSE IF v \in TieRoundsUp THEN v + 5 ELSE v - 5

\* A format_amount that refuses only the negative amounts.
format_amount_nonneg(a) ==
    IF ~a.isnum THEN Raise("InvalidInput")
    ELSE IF a.v < 0 THEN Raise("InvalidInput")
    ELSE Ok(Round2(a.v))

\* format_amount: float(amount) fails on text; a value <= 0 is refused; the
\* rest is rounded to 2 fractional digits.
format_amount(a) ==
    IF ~a.isnum THEN Raise("InvalidInput")
    ELSE IF ~validate_amount(a.v) THEN Raise("InvalidInput")
    ELSE Ok(Round2(a.v))

format_category(s) ==
    IF ~validate_category(s) THEN Raise("InvalidInput")
    ELSE Ok(Lower(Strip(s)))

(***************************************************************************)
(* tracker/models.py                                                       *)
(***************************************************************************)
ExpenseFields == {"id", "date", "category", "amount", "currency", "note", "created_at"}

\* Expense.to_dict: asdict(self), one key per field.
to_dict(e) == [k \in ExpenseFields |-> e[k]]

\* A from_dict that leaves the currency at its default.
from_dict_default_currency(d) ==
    [id |-> d.id, date |-> d.date, category |-> d.category, amount |-> d.amount,
     currency |-> "BDT",
     note |-> IF "note" \in DOMAIN d THEN d.note ELSE <<>>,
     created_at |-> IF "created_at" \in DOMAIN d THEN d.created_at ELSE <<>>]

\* Expense.from_dict: cls(**data); currency, note and created_at have defaults.
from_dict(d) ==
    [id |-> d.id, date |-> d.date, category |-> d.category, amount |-> d.amount,
     currency |-> IF "currency" \in DOMAIN d THEN d.currency ELSE "BDT",
     note |-> IF "note" \in DOMAIN d THEN d.note ELSE <<>>,
     created_at |-> IF "created_at" \in DOMAIN d THEN d.created_at ELSE <<>>]

(***************************************************************************)
(* tracker/storage.py.  The file is absent ("missing"), holds a JSON       *)
(* document ("ok") or holds text that is not JSON ("corrupt": what is left *)
(* of the document is kept in the expenses field, unreadable).             *)
(***************************************************************************)
MissingFile == [status |-> "missing", version |-> 0, expenses |-> <<>>]

InitialDoc == [status |-> "ok", version |-> 1, expenses |-> <<>>]

\* An initialization that writes the initial document whatever it finds.
ensure_file_exists_overwrite(f) == InitialDoc

\* _ensure_file_exists: writes the initial document when no file exists.
ensure_file_exists(f) == IF f.status = "missing" THEN InitialDoc ELSE f

\* The outcome of a storage or service call: the error raised ("none" when it
\* returns), the value returned and the file it leaves.
Outcome(err, value, f) == [err |-> err, value |-> value, file |-> f]

\* A load that reads a damaged file as an empty collection.
load_all_lenient(f) ==
    IF f.status = "corrupt" THEN [err |-> "none", value |-> <<>>, file |-> f]
    ELSE IF f.status = "missing"
    THEN [err |-> "none", value |-> <<>>, file |-> ensure_file_exists(f)]
    ELSE [err |-> "none",
          value |-> [i \in 1..Len(f.expenses) |-> from_dict(f.expenses[i])], file |-> f]

\* load_all: the expenses of the document; CorruptData on invalid JSON; a
\* missing file is created anew and read as empty.
load_all(f) ==
    IF f.status = "corrupt" THEN Outcome("CorruptData", <<>>, f)
    ELSE IF f.status = "missing" THEN Outcome("none", <<>>, ensure_file_exists(f))
    ELSE Outcome("none", [i \in 1..Len(f.expenses) |-> from_dict(f.expenses[i])], f)

\* save_all: overwrites the file with version 1 and all the expenses.
save_all(f, expenses) ==
    [status |-> "ok", version |-> 1,
     expenses |-> [i \in 1..Len(expenses) |-> to_dict(expenses[i])]]

\* A save that appends the new expense to what the file holds at the time
\* of the save, not to the list loaded before.
storage_add_save_fresh(f, loaded, expense) ==
    save_all(f, Append(load_all(f).value, expense))

\* The second half of ExpenseStorage.add: the new expense is appended to the
\* list loaded before and the list is saved.
storage_add_save(f, loaded, expense) == save_all(f, Append(loaded, expense))

\* An add that saves the new expense alone, without the loaded ones.
storage_add_overwrite(f, expense) ==
    LET l == load_all(f) IN
    IF l.err # "none" THEN Outcome(l.err, <<>>, l.file)
    ELSE Outcome("none", <<>>, save_all(l.file, <<expense>>))

\* ExpenseStorage.add: load, append, save.
storage_add(f, expense) ==
    LET l == load_all(f) IN
    IF l.err # "none" THEN Outcome(l.err, <<>>, l.file)
    ELSE Outcome("none", <<>>, save_all(l.file, Append(l.value, expense)))

\* A delete whose filter is inverted: it keeps the expenses with the id.
storage_delete_inverted(f, expense_id) ==
    LET l == load_all(f)
        kept == SelectSeq(l.value, LAMBDA e : e.id = expense_id)
    IN IF l.err # "none" THEN Outcome(l.err, <<>>, l.file)
       ELSE IF Len(kept) < Len(l.value) THEN Outcome("none", TRUE, save_all(l.file, kept))
       ELSE Outcome("none", FALSE, l.file)

\* A delete that compares the counts with <= and so always reports a removal.
storage_delete_always(f, expense_id) ==
    LET l == load_all(f)
        kept == SelectSeq(l.value, LAMBDA e : e.id # expense_id)
    IN IF l.err # "none" THEN Outcome(l.err, <<>>, l.file)
       ELSE IF Len(kept) <= Len(l.value) THEN Outcome("none", TRUE, save_all(l.file, kept))
       ELSE Outcome("none", FALSE, l.file)

\* ExpenseStorage.delete: load, drop the expenses with the id, save only when
\* the count decreased.
storage_delete(f, expense_id) ==
    LET l == load_all(f)
        kept == SelectSeq(l.value, LAMBDA e : e.id # expense_id)
    IN IF l.err # "none" THEN Outcome(l.err, <<>>, l.file)
       ELSE IF Len(kept) < Len(l.value) THEN Outcome("none", TRUE, save_all(l.file, kept))
       ELSE Outcome("none", FALSE, l.file)

\* dict.update(updates) on the dictionary of an expense.
DictUpdate(d, updates) ==
    [k \in DOMAIN d |-> IF k \in DOMAIN updates THEN updates[k] ELSE d[k]]

\* Optional[Expense]: None is the empty sequence, an expense e is <<e>>.
NotFound == <<>>

\* An update that removes the expense and appends its updated copy.
storage_update_reappend(f, expense_id, updates) ==
    LET l == load_all(f)
        hits == {i \in 1..Len(l.value) : l.value[i].id = expense_id}
    IN IF l.err # "none" THEN Outcome(l.err, <<>>, l.file)
       ELSE IF hits = {} THEN Outcome("none", NotFound, l.file)
       ELSE LET i == CHOOSE h \in hits : \A g \in hits : h <= g
                updated == from_dict(DictUpdate(to_dict(l.value[i]), updates))
                expenses == SubSeq(l.value, 1, i - 1) \o SubSeq(l.value, i + 1, Len(l.value))
                                \o <<updated>>
            IN Outcome("none", <<updated>>, save_all(l.file, expenses))

\* ExpenseStorage.update: load, replace the first expense with the id by its
\* updated copy, save and return it; None when no expense has the id.
storage_update(f, expense_id, updates) ==
    LET l == load_all(f)
        hits == {i \in 1..Len(l.value) : l.value[i].id = expense_id}
    IN IF l.err # "none" THEN Outcome(l.err, <<>>, l.file)
       ELSE IF hits = {} THEN Outcome("none", NotFound, l.file)
       ELSE LET i == CHOOSE h \in hits : \A g \in hits : h <= g
                updated == from_dict(DictUpdate(to_dict(l.value[i]), updates))
                expenses == [l.value EXCEPT ![i] = updated]
            IN Outcome("none", <<updated>>, save_all(l.file, expenses))

(***************************************************************************)
(* tracker/service.py                                                      *)
(***************************************************************************)
ExpPrefix == <<"E", "X", "P", "-">>

\* f"EXP-{date.replace('-', '')}"
DatePrefix(date) == ExpPrefix \o RemoveDashes(date)

\* int(exp.id.split('-')[-1]); a part that is no number is skipped (0 here,
\* which never raises the maximum).
SeqOf(id) ==
    LET parts == SplitDash(id)
        last == parts[Len(parts)]
    IN IF AllDigits(last) THEN DigitsValue(last) ELSE 0

\* A scan that takes only an id equal to the prefix as one of the date.
RECURSIVE MaxSeqOf_ExactMatch(_, _)
MaxSeqOf_ExactMatch(expenses, prefix) ==
    IF expenses = <<>> THEN 0
    ELSE LET rest == MaxSeqOf_ExactMatch(Tail(expenses), prefix)
             seq == IF Head(expenses).id = prefix THEN SeqOf(Head(expenses).id) ELSE 0
         IN IF seq > rest THEN seq ELSE rest

\* The highest sequence number among the ids that start with the prefix.
RECURSIVE MaxSeqOf(_, _)
MaxSeqOf(expenses, prefix) ==
    IF expenses = <<>> THEN 0
    ELSE LET rest == MaxSeqOf(Tail(expenses), prefix)
             seq == IF StartsWith(Head(expenses).id, prefix)
                    THEN SeqOf(Head(expenses).id) ELSE 0
         IN IF seq > rest THEN seq ELSE rest

\* A numbering that forgets to add one to the highest sequence number.
NextId_NoIncrement(expenses, date) ==
    DatePrefix(date) \o <<"-">> \o Format04d(MaxSeqOf(expenses, DatePrefix(date)))

\* The id generate_id builds from the loaded expenses.
NextId(expenses, date) ==
    DatePrefix(date) \o <<"-">> \o Format04d(MaxSeqOf(expenses, DatePrefix(date)) + 1)

\* A generate_id that numbers the new id without looking at the loaded
\* expenses.
generate_id_unscanned(f, date) ==
    LET l == load_all(f) IN
    IF l.err # "none" THEN Outcome(l.err, <<>>, l.file)
    ELSE Outcome("none", NextId(<<>>, date), l.file)

\* generate_id: loads the collection and numbers the new id one above the
\* highest sequence number found for the date prefix.
generate_id(f, date) ==
    LET l == load_all(f) IN
    IF l.err # "none" THEN Outcome(l.err, <<>>, l.file)
    ELSE Outcome("none", NextId(l.value, date), l.file)

\* datetime.now() at time t, counted in seconds from 2024-11-15 00:00:00:
\* its date (the model's times fall on the first day) ...
NowDate(t) == <<"2", "0", "2", "4", "-", "1", "1", "-">> \o ToDigits(15 + t \div 86400)

\* ... and its strftime("%Y-%m-%d %H:%M:%S").
NowStamp(t) ==
    NowDate(t) \o <<" ">> \o ZeroPad(ToDigits((t \div 3600) % 24), 2) \o <<":">>
        \o ZeroPad(ToDigits((t \div 60) % 60), 2) \o <<":">> \o ZeroPad(ToDigits(t % 60), 2)

\* add_expense: formats date, amount and category, generates the id, stamps
\* created_at and appends the expense to the file.
add_expense(f, a, t) ==
    LET d == format_date(a.date, NowDate(t))
        m == format_amount(a.amount)
        c == format_category(a.category)
    IN IF d.err # "none" THEN Outcome(d.err, <<>>, f)
       ELSE IF m.err # "none" THEN Outcome(m.err, <<>>, f)
       ELSE IF c.err # "none" THEN Outcome(c.err, <<>>, f)
       ELSE LET g == generate_id(f, d.value)
                expense == [id |-> g.value, date |-> d.value, category |-> c.value,
                            amount |-> m.value, currency |-> a.currency,
                            note |-> Strip(a.note), created_at |-> NowStamp(t)]
                st == storage_add(g.file, expense)
            IN IF g.err # "none" THEN Outcome(g.err, <<>>, g.file)
               ELSE IF st.err # "none" THEN Outcome(st.err, <<>>, st.file)
               ELSE Outcome("none", expense, st.file)

\* delete_expense: passes the id to the storage.
delete_expense(f, expense_id) == storage_delete(f, expense_id)

\* The formatted value of one supplied field of edit_expense.
FormatField(k, a, t) ==
    CASE k = "date" -> format_date(a.date, NowDate(t))
      [] k = "category" -> format_category(a.category)
      [] k = "amount" -> format_amount(a.amount)
      [] k = "note" -> Ok(Strip(a.note))
      [] k = "currency" -> Ok(a.currency)

\* edit_expense: the supplied fields (the domain of a) are formatted into the
\* updates dictionary, which the storage applies to the expense.
edit_expense(f, expense_id, a, t) ==
    IF \E k \in DOMAIN a : FormatField(k, a, t).err # "none"
    THEN Outcome("InvalidInput", <<>>, f)
    ELSE storage_update(f, expense_id, [k \in DOMAIN a |-> FormatField(k, a, t).value])

\* A filter whose amount bounds are exclusive.
Matches_Exclusive(e, q) ==
    /\ q.month = <<>> \/ StartsWith(e.date, q.month)
    /\ q.from_date = <<>> \/ ~StrLess(e.date, q.from_date)
    /\ q.to_date = <<>> \/ ~StrLess(q.to_date, e.date)
    /\ q.category = <<>> \/ Lower(e.category) = Lower(q.category)
    /\ q.min_amount = <<>> \/ e.amount > q.min_amount[1]
    /\ q.max_amount = <<>> \/ e.amount < q.max_amount[1]

\* _apply_filters: every supplied filter must accept the expense.  An empty
\* string (or None) for month, dates and category means no filter; the amount
\* bounds are Optional: <<>> for None, <<x>> for x.
Matches(e, q) ==
    /\ q.month = <<>> \/ StartsWith(e.date, q.month)
    /\ q.from_date = <<>> \/ ~StrLess(e.date, q.from_date)
    /\ q.to_date = <<>> \/ ~StrLess(q.to_date, e.date)
    /\ q.category = <<>> \/ Lower(e.category) = Lower(q.category)
    /\ q.min_amount = <<>> \/ e.amount >= q.min_amount[1]
    /\ q.max_amount = <<>> \/ e.amount <= q.max_amount[1]

apply_filters(expenses, q) == SelectSeq(expenses, LAMBDA e : Matches(e, q))

\* The key comparison of _sort_expenses: by amount, by category, else by date.
KeyLess(sort_by, x, y) ==
    IF sort_by = "amount" THEN x.amount < y.amount
    ELSE IF sort_by = "category" THEN StrLess(x.category, y.category)
    ELSE StrLess(x.date, y.date)

\* A descending order obtained by reversing the ascending one: expenses of
\* equal key come out in reverse.
GoesBefore_Reversed(sort_by, descending, x, y) ==
    IF descending THEN ~KeyLess(sort_by, x, y) ELSE KeyLess(sort_by, x, y)

\* x goes before y in the sorted result only when its key is strictly
\* smaller (greater when reverse=True).
GoesBefore(sort_by, descending, x, y) ==
    IF descending THEN KeyLess(sort_by, y, x) ELSE KeyLess(sort_by, x, y)

\* Inserts x behind every element it does not go before: elements of equal
\* key keep the order in which they arrive, as sorted() guarantees.
RECURSIVE InsertSorted(_, _, _, _)
InsertSorted(sorted, x, sort_by, descending) ==
    IF sorted = <<>> THEN <<x>>
    ELSE IF GoesBefore(sort_by, descending, x, Head(sorted)) THEN <<x>> \o sorted
    ELSE <<Head(sorted)>> \o InsertSorted(Tail(sorted), x, sort_by, descending)

\* _sort_expenses: sorted(expenses, key=..., reverse=descending).
RECURSIVE sort_expenses(_, _, _)
sort_expenses(expenses, sort_by, descending) ==
    IF expenses = <<>> THEN <<>>
    ELSE InsertSorted(
             sort_expenses(SubSeq(expenses, 1, Len(expenses) - 1), sort_by, descending),
             expenses[Len(expenses)], sort_by, descending)

\* sorted_expenses[:limit], applied when limit is a positive number (0 stands
\* for None).
ApplyLimit(expenses, limit) ==
    IF limit > 0 /\ limit < Len(expenses) THEN SubSeq(expenses, 1, limit) ELSE expenses

\* list_expenses: load, filter, sort, limit.
list_expenses(f, q) ==
    LET l == load_all(f) IN
    IF l.err # "none" THEN Outcome(l.err, <<>>, l.file)
    ELSE Outcome("none",
                 ApplyLimit(sort_expenses(apply_filters(l.value, q), q.sort_by, q.descending),
                            q.limit),
                 l.file)

\* _get_period_description
get_period_description(month, from_date, to_date) ==
    IF month # <<>> THEN <<"(">> \o month \o <<")">>
    ELSE IF from_date # <<>> /\ to_date # <<>>
         THEN <<"(">> \o from_date \o <<" ", "t", "o", " ">> \o to_date \o <<")">>
    ELSE IF from_date # <<>>
         THEN <<"(", "f", "r", "o", "m", " ">> \o from_date \o <<")">>
    ELSE IF to_date # <<>> THEN <<"(", "t", "o", " ">> \o to_date \o <<")">>
    ELSE <<"(", "a", "l", "l", " ", "t", "i", "m", "e", ")">>

RECURSIVE SumAmounts(_)
SumAmounts(expenses) ==
    IF expenses = <<>> THEN 0 ELSE Head(expenses).amount + SumAmounts(Tail(expenses))

\* Category totals where a later expense replaces the total of its category.
RECURSIVE CategoryTotals_Overwrite(_)
CategoryTotals_Overwrite(expenses) ==
    IF expenses = <<>> THEN <<>>
    ELSE LET before == CategoryTotals_Overwrite(SubSeq(expenses, 1, Len(expenses) - 1))
             e == expenses[Len(expenses)]
         IN IF \E i \in 1..Len(before) : before[i][1] = e.category
            THEN [i \in 1..Len(before) |->
                     IF before[i][1] = e.category
                     THEN <<e.category, e.amount>> ELSE before[i]]
            ELSE Append(before, <<e.category, e.amount>>)

\* The category totals, a dictionary in insertion order: a sequence of
\* <<category, total>> pairs, a category entering at its first expense.
RECURSIVE CategoryTotals(_)
CategoryTotals(expenses) ==
    IF expenses = <<>> THEN <<>>
    ELSE LET before == CategoryTotals(SubSeq(expenses, 1, Len(expenses) - 1))
             e == expenses[Len(expenses)]
         IN IF \E i \in 1..Len(before) : before[i][1] = e.category
            THEN [i \in 1..Len(before) |->
                     IF before[i][1] = e.category
                     THEN <<e.category, before[i][2] + e.amount>> ELSE before[i]]
            ELSE Append(before, <<e.category, e.amount>>)

\* A summary that takes the matching expenses latest date first.
summary_descending(f, q) ==
    LET l == list_expenses(f, [month |-> q.month, from_date |-> q.from_date,
                               to_date |-> q.to_date, category |-> q.category,
                               min_amount |-> <<>>, max_amount |-> <<>>,
                               sort_by |-> "date", descending |-> TRUE, limit |-> 0])
        expenses == l.value
        period == get_period_description(q.month, q.from_date, q.to_date)
    IN IF l.err # "none" THEN Outcome(l.err, <<>>, l.file)
       ELSE IF expenses = <<>>
       THEN Outcome("none", [count |-> 0, grand_total |-> 0, totals_by_category |-> <<>>,
                             currency |-> "BDT", period |-> period], l.file)
       ELSE Outcome("none", [count |-> Len(expenses), grand_total |-> SumAmounts(expenses),
                             totals_by_category |-> CategoryTotals(expenses),
                             currency |-> expenses[1].currency, period |-> period], l.file)

\* summary: list_expenses with the four filters and its default sort (by
\* date, ascending, no limit), then the totals.
summary(f, q) ==
    LET l == list_expenses(f, [month |-> q.month, from_date |-> q.from_date,
                               to_date |-> q.to_date, category |-> q.category,
                               min_amount |-> <<>>, max_amount |-> <<>>,
                               sort_by |-> "date", descending |-> FALSE, limit |-> 0])
        expenses == l.value
        period == get_period_description(q.month, q.from_date, q.to_date)
    IN IF l.err # "none" THEN Outcome(l.err, <<>>, l.file)
       ELSE IF expenses = <<>>
       THEN Outcome("none", [count |-> 0, grand_total |-> 0, totals_by_category |-> <<>>,
                             currency |-> "BDT", period |-> period], l.file)
       ELSE Outcome("none", [count |-> Len(expenses), grand_total |-> SumAmounts(expenses),
                             totals_by_category |-> CategoryTotals(expenses),
                             currency |-> expenses[1].currency, period |-> period], l.file)

(***************************************************************************)
(* Inputs of the operations.                                               *)
(***************************************************************************)
DPadded == <<"2", "0", "2", "4", "-", "1", "1", "-", "1", "5">>

DUnpadded == <<"2", "0", "2", "4", "-", "1", "-", "1">>

DNoSuchDay == <<"2", "0", "2", "4", "-", "0", "2", "-", "3", "0">>

DDayFirst == <<"1", "5", "-", "1", "1", "-", "2", "0", "2", "4">>

CFood == <<" ", "F", "o", "o", "d", " ">>

CRent == <<"r", "e", "n", "t">>

CBlank == <<" ", " ">>

NTaxi == <<" ", "t", "a", "x", "i", " ">>

Num(v) == [isnum |-> TRUE, v |-> v]

NotANumber == [isnum |-> FALSE, v |-> 0]

\* The requests of add_expense: three that validation accepts, then one for
\* each way validation refuses.
AddInputs ==
    { [date |-> DPadded, category |-> CFood, amount |-> Num(10005), note |-> NTaxi,
       currency |-> "BDT"],
      [date |-> DUnpadded, category |-> CRent, amount |-> Num(20000), note |-> <<>>,
       currency |-> "USD"],
      [date |-> <<>>, category |-> CRent, amount |-> Num(4), note |-> <<>>,
       currency |-> "BDT"],
      [date |-> DNoSuchDay, category |-> CFood, amount |-> Num(10005), note |-> <<>>,
       currency |-> "BDT"],
      [date |-> DPadded, category |-> CFood, amount |-> Num(0), note |-> <<>>,
       currency |-> "BDT"],
      [date |-> DPadded, category |-> CFood, amount |-> NotANumber, note |-> <<>>,
       currency |-> "BDT"],
      [date |-> DPadded, category |-> CBlank, amount |-> Num(10005), note |-> <<>>,
       currency |-> "BDT"] }

\* The requests of edit_expense: the keys of a request are the fields that
\* are supplied (not None).
EditInputs ==
    { [date |-> DUnpadded],
      [category |-> CFood, amount |-> Num(4)],
      [note |-> NTaxi, currency |-> "USD"],
      [k \in {} |-> <<>>],
      [date |-> DDayFirst],
      [category |-> CBlank],
      [note |-> NTaxi, amount |-> Num(0 - 1000)] }

IdAbsent ==
    <<"E", "X", "P", "-", "2", "0", "2", "4", "1", "1", "1", "5", "-", "0", "0", "0", "9">>

\* The ids delete_expense and edit_expense are called with: those in the
\* file and one that no expense has.
IdInputs(f) == {f.expenses[i].id : i \in 1..Len(f.expenses)} \cup {IdAbsent}

NoFilter ==
    [month |-> <<>>, from_date |-> <<>>, to_date |-> <<>>, category |-> <<>>,
     min_amount |-> <<>>, max_amount |-> <<>>, sort_by |-> "date", descending |-> FALSE,
     limit |-> 0]

MNov == <<"2", "0", "2", "4", "-", "1", "1">>

DFeb == <<"2", "0", "2", "4", "-", "0", "2", "-", "0", "1">>

CFoodQuery == <<"F", "o", "o", "d">>

\* The requests of list_expenses: between them every filter, every sort key,
\* both directions and a limit that cuts.
ListInputs ==
    { [NoFilter EXCEPT !.month = MNov],
      [NoFilter EXCEPT !.category = CFoodQuery, !.sort_by = "amount", !.descending = TRUE],
      [NoFilter EXCEPT !.min_amount = <<10010>>, !.max_amount = <<20000>>,
                       !.sort_by = "category"],
      [NoFilter EXCEPT !.from_date = DFeb, !.to_date = DPadded, !.descending = TRUE],
      [NoFilter EXCEPT !.sort_by = "category", !.descending = TRUE],
      [NoFilter EXCEPT !.sort_by = "amount", !.limit = 1] }

NoPeriod == [month |-> <<>>, from_date |-> <<>>, to_date |-> <<>>, category |-> <<>>]

\* The requests of summary: a month, a lower date bound with a category, and
\* no filter at all.
SummaryInputs ==
    { [NoPeriod EXCEPT !.month = MNov],
      [NoPeriod EXCEPT !.from_date = DPadded, !.category = CRent],
      NoPeriod }

(***************************************************************************)
(* State.  The tool runs one command per process: a run constructs the     *)
(* storage (pc "idle" to "ready"), performs one operation of the service   *)
(* ("ready" to "done") and exits ("done" to "idle").                       *)
(***************************************************************************)
VARIABLES
    file,      \* the JSON file at storage.filepath
    pc,        \* where the current run of the tool is
    result,    \* the call of the current run: operation, arguments, file before, outcome
    adds,      \* how many expenses were added
    edits,     \* how many edits were saved
    lastSeq,   \* history: per date, the sequence number add_expense returned last
    procs      \* the two concurrent invocations of add: position and local values

vars == <<file, pc, result, adds, edits, lastSeq, procs>>

\* The two invocations of the tool that run add concurrently.
Procs == {1, 2}

\* An invocation that has not started: at is its position, args its request,
\* expense the Expense it builds and loaded the list storage.add has loaded
\* (Optional values are sequences of length 0 or 1).
NotStarted == [at |-> "start", args |-> <<>>, expense |-> <<>>, loaded |-> <<>>]

Call(op, id, args, before, o) ==
    [op |-> op, id |-> id, args |-> args, before |-> before, err |-> o.err,
     value |-> o.value]

NoCall == Call("none", <<>>, <<>>, MissingFile, Ok(<<>>))

\* The state after ExpenseStorage() on a path without a file.
Init ==
    /\ file = ensure_file_exists(MissingFile)
    /\ pc = "ready"
    /\ result = NoCall
    /\ adds = 0
    /\ edits = 0
    /\ lastSeq = [d \in {} |-> 0]
    /\ procs = [p \in Procs |-> NotStarted]

\* ExpenseStorage.__init__ at the start of a run.
Construct ==
    /\ pc = "idle"
    /\ file' = ensure_file_exists(file)
    /\ pc' = "ready"
    /\ UNCHANGED <<result, adds, edits, lastSeq, procs>>

\* The time datetime.now() reads, in seconds from 2024-11-15 00:00:00: one
\* second passes with every expense added.
Now == adds + 1

Add ==
    /\ pc = "ready"
    /\ \E a \in AddInputs :
        LET o == add_expense(file, a, Now) IN
        /\ o.err = "none" => adds < MaxAdds
        /\ adds' = IF o.err = "none" THEN adds + 1 ELSE adds
        /\ file' = o.file
        /\ result' = Call("add", <<>>, a, file, o)
        /\ lastSeq' = IF o.err = "none"
                      THEN [d \in DOMAIN lastSeq \cup {o.value.date} |->
                               IF d = o.value.date THEN SeqOf(o.value.id) ELSE lastSeq[d]]
                      ELSE lastSeq
        /\ pc' = "done"
        /\ UNCHANGED <<edits, procs>>

Delete ==
    /\ pc = "ready"
    /\ \E id \in IdInputs(file) :
        LET o == delete_expense(file, id) IN
        /\ file' = o.file
        /\ result' = Call("delete", id, <<>>, file, o)
        /\ pc' = "done"
        /\ UNCHANGED <<adds, edits, lastSeq, procs>>

Edit ==
    /\ pc = "ready"
    /\ \E id \in IdInputs(file), a \in EditInputs :
        LET o == edit_expense(file, id, a, Now)
            saved == o.err = "none" /\ o.value # NotFound
        IN /\ saved => edits < MaxEdits
           /\ file' = o.file
           /\ edits' = IF saved THEN edits + 1 ELSE edits
           /\ result' = Call("edit", id, a, file, o)
           /\ pc' = "done"
           /\ UNCHANGED <<adds, lastSeq, procs>>

List ==
    /\ pc = "ready"
    /\ \E q \in ListInputs :
        LET o == list_expenses(file, q) IN
        /\ file' = o.file
        /\ result' = Call("list", <<>>, q, file, o)
        /\ pc' = "done"
        /\ UNCHANGED <<adds, edits, lastSeq, procs>>

Summary ==
    /\ pc = "ready"
    /\ \E q \in SummaryInputs :
        LET o == summary(file, q) IN
        /\ file' = o.file
        /\ result' = Call("summary", <<>>, q, file, o)
        /\ pc' = "done"
        /\ UNCHANGED <<adds, edits, lastSeq, procs>>

\* The run ends.
Exit ==
    /\ pc = "done"
    /\ pc' = "idle"
    /\ result' = NoCall
    /\ UNCHANGED <<file, adds, edits, lastSeq, procs>>

\* The file is removed from outside the tool.
RemoveFile ==
    /\ pc # "done"
    /\ file.status = "ok"
    /\ file' = MissingFile
    /\ UNCHANGED <<pc, result, adds, edits, lastSeq, procs>>

\* The file is damaged from outside the tool (a truncated write, an editor):
\* its text is no JSON any more.
CorruptFile ==
    /\ pc # "done"
    /\ file.status = "ok"
    /\ file' = [file EXCEPT !.status = "corrupt"]
    /\ UNCHANGED <<pc, result, adds, edits, lastSeq, procs>>

Next ==
    \/ Construct
    \/ Add
    \/ Delete
    \/ Edit
    \/ List
    \/ Summary
    \/ Exit
    \/ RemoveFile
    \/ CorruptFile

Spec == Init /\ [][Next]_vars

\* The operations alone: no removal or damage of the file from outside.
NextOps ==
    \/ Construct
    \/ Add
    \/ Delete
    \/ Edit
    \/ List
    \/ Summary
    \/ Exit

SpecOps == Init /\ [][NextOps]_vars

(***************************************************************************)
(* Two invocations of add on one file, without locking.  Each goes through *)
(* add_expense in steps that are atomic at the granularity of load_all and *)
(* save_all: the formatting of the request, the load of generate_id, the   *)
(* load of ExpenseStorage.add and its save.                                *)
(***************************************************************************)
\* The clock of invocation p when it stamps its expense.
ProcNow(p) == p

\* add_expense up to the validation of the request: InvalidInput ends the
\* invocation, a valid request goes on to generate_id.
ConcBegin(p) ==
    /\ procs[p].at = "start"
    /\ \E a \in AddInputs :
        LET d == format_date(a.date, NowDate(ProcNow(p)))
            m == format_amount(a.amount)
            c == format_category(a.category)
            valid == d.err = "none" /\ m.err = "none" /\ c.err = "none"
        IN procs' = [procs EXCEPT ![p] = [@ EXCEPT !.at = IF valid THEN "generate" ELSE "failed",
                                                     !.args = <<a>>]]
    /\ UNCHANGED <<file, pc, result, adds, edits, lastSeq>>

\* generate_id: one load of the file, from which the id is numbered; the
\* Expense is built with it.
ConcGenerateId(p) ==
    /\ procs[p].at = "generate"
    /\ LET a == procs[p].args[1]
           g == generate_id(file, format_date(a.date, NowDate(ProcNow(p))).value)
           expense == [id |-> g.value,
                       date |-> format_date(a.date, NowDate(ProcNow(p))).value,
                       category |-> format_category(a.category).value,
                       amount |-> format_amount(a.amount).value,
                       currency |-> a.currency, note |-> Strip(a.note),
                       created_at |-> NowStamp(ProcNow(p))]
       IN /\ file' = g.file
          /\ procs' = [procs EXCEPT ![p] =
                          IF g.err # "none" THEN [@ EXCEPT !.at = "failed"]
                          ELSE [@ EXCEPT !.at = "load", !.expense = <<expense>>]]
    /\ UNCHANGED <<pc, result, adds, edits, lastSeq>>

\* ExpenseStorage.add, first half: the load.
ConcLoad(p) ==
    /\ procs[p].at = "load"
    /\ LET l == load_all(file) IN
       /\ file' = l.file
       /\ procs' = [procs EXCEPT ![p] =
                       IF l.err # "none" THEN [@ EXCEPT !.at = "failed"]
                       ELSE [@ EXCEPT !.at = "save", !.loaded = l.value]]
    /\ UNCHANGED <<pc, result, adds, edits, lastSeq>>

\* ExpenseStorage.add, second half: append and save; add_expense returns.
ConcSave(p) ==
    /\ procs[p].at = "save"
    /\ file' = storage_add_save(file, procs[p].loaded, procs[p].expense[1])
    /\ procs' = [procs EXCEPT ![p] = [@ EXCEPT !.at = "done"]]
    /\ UNCHANGED <<pc, result, adds, edits, lastSeq>>

NextConc ==
    \/ \E p \in Procs : ConcBegin(p)
    \/ \E p \in Procs : ConcGenerateId(p)
    \/ \E p \in Procs : ConcLoad(p)
    \/ \E p \in Procs : ConcSave(p)

SpecConc == Init /\ [][NextConc]_vars

(***************************************************************************)
(* Properties.                                                             *)
(***************************************************************************)
\* The call op has just returned or raised.
Done(op) == pc = "done" /\ result.op = op

\* The call op has just returned without raising.
Returned(op) == Done(op) /\ result.err = "none"

Ids(expenses) == {expenses[i].id : i \in 1..Len(expenses)}

\* C1: all persisted expenses have pairwise distinct ids.
C1_UniqueIds ==
    \A i, j \in 1..Len(file.expenses) :
        i # j => file.expenses[i].id # file.expenses[j].id

\* Two expenses of one date are persisted, the second just added.
C1_Witness ==
    /\ Returned("add")
    /\ Len(file.expenses) = 2
    /\ file.expenses[1].date = file.expenses[2].date
    /\ Len(result.before.expenses) = 1

\* C2: the id add_expense returns is EXP-, the 8 digits of the formatted date
\* with its dashes removed, a dash and exactly 4 digits of sequence number.
C2_IdFormat ==
    Returned("add") =>
        LET id == result.value.id
            digits == RemoveDashes(result.value.date)
        IN /\ Len(digits) = 8
           /\ AllDigits(digits)
           /\ Len(id) = 17
           /\ SubSeq(id, 1, 4) = ExpPrefix
           /\ SubSeq(id, 5, 12) = digits
           /\ id[13] = "-"
           /\ AllDigits(SubSeq(id, 14, 17))

\* The step is a call of add_expense that returns an expense.
AddReturns == pc = "ready" /\ pc' = "done" /\ result'.op = "add" /\ result'.err = "none"

\* The id add_expense returned last for the date.
LastId(d) == DatePrefix(d) \o <<"-">> \o Format04d(lastSeq[d])

\* No persisted id starts with the EXP-YYYYMMDD prefix of the date.
NoIdFor(d) == \A id \in Ids(file.expenses) : ~StartsWith(id, DatePrefix(d))

\* C3 as claimed: across any operations in between, the id add_expense
\* returns for a date carries a higher sequence number than the id it
\* returned for that date before, and 0001 when no id for the date exists.
C3_AlwaysIncreasing ==
    [][AddReturns =>
          LET d == result'.value.date
              seq == SeqOf(result'.value.id)
          IN /\ d \in DOMAIN lastSeq => seq > lastSeq[d]
             /\ NoIdFor(d) => seq = 1]_vars

\* C3: the id add_expense returns for a date carries a higher sequence
\* number than the id it returned for that date before, as long as that
\* earlier id is still persisted, and 0001 when no persisted id starts with
\* the prefix of the date.
C3_IncreasingWhilePersisted ==
    [][AddReturns =>
          LET d == result'.value.date
              seq == SeqOf(result'.value.id)
          IN /\ (d \in DOMAIN lastSeq /\ LastId(d) \in Ids(file.expenses)) => seq > lastSeq[d]
             /\ NoIdFor(d) => seq = 1]_vars

\* A second add for a date has just returned 0002 while the first id of the
\* date is persisted.
C3_Witness ==
    /\ Returned("add")
    /\ SeqOf(result.value.id) = 2
    /\ \E e \in {result.before.expenses[i] : i \in 1..Len(result.before.expenses)} :
           e.date = result.value.date /\ SeqOf(e.id) = 1

\* The fields of a request that validation refuses: a malformed date, an
\* amount that is no number or not positive, an empty category.
BadDate(a) ==
    "date" \in DOMAIN a /\ a.date # <<>> /\ Lower(a.date) # Today /\ ~validate_date(a.date)

BadAmount(a) == "amount" \in DOMAIN a /\ (~a.amount.isnum \/ a.amount.v <= 0)

BadCategory(a) == "category" \in DOMAIN a /\ Strip(a.category) = <<>>

ValidArgs(a) == ~BadDate(a) /\ ~BadAmount(a) /\ ~BadCategory(a)

\* C4: delete_expense, or edit_expense with valid fields, on an id that no
\* persisted expense has returns False / None without raising and leaves
\* the persisted collection as it was.
C4_AbsentIdNoEffect ==
    /\ (Done("delete") /\ result.before.status # "corrupt"
            /\ result.id \notin Ids(result.before.expenses))
           => /\ result.err = "none"
              /\ result.value = FALSE
              /\ file.status = "ok"
              /\ file.expenses = result.before.expenses
    /\ (Done("edit") /\ result.before.status # "corrupt" /\ ValidArgs(result.args)
            /\ result.id \notin Ids(result.before.expenses))
           => /\ result.err = "none"
              /\ result.value = NotFound
              /\ file.status = "ok"
              /\ file.expenses = result.before.expenses

\* edit_expense with valid fields has answered an absent id on a collection
\* that is not empty.
C4_Witness ==
    /\ Done("edit")
    /\ ValidArgs(result.args)
    /\ DOMAIN result.args # {}
    /\ result.id \notin Ids(result.before.expenses)
    /\ result.before.expenses # <<>>
    /\ result.before.status = "ok"

\* C5: add_expense and edit_expense given a malformed date, an amount that
\* is no number or not positive, or an empty category raise InvalidInput and
\* leave the file as it was.
C5_InvalidInputNoEffect ==
    ((Done("add") \/ Done("edit")) /\ ~ValidArgs(result.args))
        => result.err = "InvalidInput" /\ file = result.before

\* edit_expense has refused a request for an expense that is persisted.
C5_Witness ==
    /\ Done("edit")
    /\ ~ValidArgs(result.args)
    /\ result.id \in Ids(result.before.expenses)
    /\ result.before.status = "ok"

\* C6: on a file that is no valid JSON every operation fails, with
\* CorruptData when its arguments are valid, returns no list and leaves the
\* file as it was.
C6_CorruptFileFails ==
    (pc = "done" /\ result.before.status = "corrupt")
        => /\ result.err # "none"
           /\ (result.op \in {"delete", "list", "summary"} \/ ValidArgs(result.args))
                  => result.err = "CorruptData"
           /\ result.value = <<>>
           /\ file = result.before

\* list_expenses has been called on a damaged file that held expenses.
C6_Witness ==
    /\ Done("list")
    /\ result.before.status = "corrupt"
    /\ result.before.expenses # <<>>

\* C7: every persisted expense has an amount above 0 that equals its value
\* rounded to 2 fractional digits (a whole number of hundredths).
C7_AmountsPositiveRounded ==
    \A i \in 1..Len(file.expenses) :
        file.expenses[i].amount > 0 /\ file.expenses[i].amount % 10 = 0

EditableFields == {"date", "category", "amount", "note", "currency"}

\* C8: edit_expense on an existing id sets, in the first expense with that
\* id, the supplied fields to their formatted values and returns it; its id,
\* its created_at, its other fields, the other expenses and the order of the
\* collection stay as they were.
C8_EditFrame ==
    (Returned("edit") /\ result.id \in Ids(result.before.expenses)) =>
        LET old == result.before.expenses
            i == CHOOSE h \in 1..Len(old) :
                     old[h].id = result.id /\ \A g \in 1..(h - 1) : old[g].id # result.id
        IN /\ Len(result.value) = 1
           /\ file.status = "ok"
           /\ Len(file.expenses) = Len(old)
           /\ file.expenses[i] = result.value[1]
           /\ \A j \in 1..Len(old) : j # i => file.expenses[j] = old[j]
           /\ result.value[1].id = old[i].id
           /\ result.value[1].created_at = old[i].created_at
           /\ \A k \in EditableFields :
                  result.value[1][k] = IF k \in DOMAIN result.args
                                       THEN FormatField(k, result.args, Now).value
                                       ELSE old[i][k]

\* The first of two expenses has just been edited and differs from before.
C8_Witness ==
    /\ Returned("edit")
    /\ Len(result.before.expenses) = 2
    /\ result.before.expenses[1].id = result.id
    /\ file.expenses[1] # result.before.expenses[1]

\* C9: delete returns True exactly when an expense has the id; afterwards no
\* expense has it and the expenses with other ids are persisted unchanged in
\* their previous order.
C9_Delete ==
    Returned("delete") =>
        /\ result.value = (result.id \in Ids(result.before.expenses))
        /\ result.id \notin Ids(file.expenses)
        /\ file.status = "ok"
        /\ file.expenses = SelectSeq(result.before.expenses, LAMBDA e : e.id # result.id)

\* The first of two expenses has just been deleted.
C9_Witness ==
    /\ Returned("delete")
    /\ result.value = TRUE
    /\ Len(result.before.expenses) = 2
    /\ result.before.expenses[1].id = result.id

\* C10: after add_expense returns, the collection is the previous one with
\* the returned expense appended at the end.
C10_AddAppends ==
    Returned("add") =>
        /\ file.status = "ok"
        /\ file.expenses = Append(result.before.expenses, result.value)

\* An expense has just been added behind one of another date.
C10_Witness ==
    /\ Returned("add")
    /\ Len(result.before.expenses) = 1
    /\ result.before.expenses[1].date # result.value.date

(***************************************************************************)
(* Properties of list_expenses and summary.                                *)
(***************************************************************************)
\* Python's s <= t on strings.
StrLeq(s, t) == s = t \/ StrLess(s, t)

\* The expense satisfies every filter of the request that is supplied: the
\* dates are compared as strings, as the design prescribes.
Satisfies(e, q) ==
    /\ q.month # <<>> => (Len(q.month) <= Len(e.date)
                            /\ \A i \in 1..Len(q.month) : e.date[i] = q.month[i])
    /\ q.from_date # <<>> => StrLeq(q.from_date, e.date)
    /\ q.to_date # <<>> => StrLeq(e.date, q.to_date)
    /\ q.category # <<>> => Lower(e.category) = Lower(q.category)
    /\ q.min_amount # <<>> => q.min_amount[1] <= e.amount
    /\ q.max_amount # <<>> => e.amount <= q.max_amount[1]

\* The positions in the collection of the expenses that satisfy the request.
Matching(expenses, q) == {i \in 1..Len(expenses) : Satisfies(expenses[i], q)}

Range(seq) == {seq[i] : i \in 1..Len(seq)}

\* C11: list_expenses (without a cutting limit) returns exactly the persisted
\* expenses that satisfy all supplied filters, each once.
C11_ListFilters ==
    (Returned("list") /\ result.args.limit <= 0) =>
        LET old == result.before.expenses IN
        /\ Range(result.value) = {old[i] : i \in Matching(old, result.args)}
        /\ Len(result.value) = Cardinality(Matching(old, result.args))

\* An amount filter has just kept an expense on each of its bounds.
C11_Witness ==
    /\ Returned("list")
    /\ result.args.min_amount # <<>>
    /\ Len(result.value) = 2
    /\ \E e \in Range(result.value) : e.amount = result.args.min_amount[1]
    /\ \E e \in Range(result.value) : e.amount = result.args.max_amount[1]

\* The filters of a summary request, as a request of list_expenses.
AsQuery(a) ==
    [NoFilter EXCEPT !.month = a.month, !.from_date = a.from_date,
                     !.to_date = a.to_date, !.category = a.category]

\* The sum of the amounts of the expenses at the positions S.
RECURSIVE AmountAt(_, _)
AmountAt(expenses, S) ==
    IF S = {} THEN 0
    ELSE LET i == CHOOSE j \in S : TRUE
         IN expenses[i].amount + AmountAt(expenses, S \ {i})

RECURSIVE SumTotals(_)
SumTotals(t) == IF t = <<>> THEN 0 ELSE Head(t)[2] + SumTotals(Tail(t))

\* C12: summary returns the number of matching expenses, the sum of their
\* amounts and one total per category present among them, that category's
\* sum, so that the category totals add up to grand_total; with no match it
\* returns count 0, grand_total 0, no category totals and currency BDT.
C12_SummaryTotals ==
    Returned("summary") =>
        LET old == result.before.expenses
            M == Matching(old, AsQuery(result.args))
            v == result.value
            t == v.totals_by_category
        IN /\ v.count = Cardinality(M)
           /\ v.grand_total = AmountAt(old, M)
           /\ {t[k][1] : k \in 1..Len(t)} = {old[i].category : i \in M}
           /\ \A k, l \in 1..Len(t) : t[k][1] = t[l][1] => k = l
           /\ \A k \in 1..Len(t) :
                  t[k][2] = AmountAt(old, {i \in M : old[i].category = t[k][1]})
           /\ SumTotals(t) = v.grand_total
           /\ M = {} => /\ v.count = 0
                        /\ v.grand_total = 0
                        /\ t = <<>>
                        /\ v.currency = "BDT"

\* A summary has just added two expenses of one category into one total.
C12_Witness ==
    /\ Returned("summary")
    /\ result.value.count = 2
    /\ Len(result.value.totals_by_category) = 1
    /\ result.value.totals_by_category[1][2] = 20020

(***************************************************************************)
(* Properties of the storage.                                              *)
(***************************************************************************)
\* C13: loading a document the tool has written and saving what was loaded
\* leaves the document as it was: same version tag, same records with the
\* same field values, in the same order.
C13_RoundTrip ==
    file.status = "ok" =>
        LET l == load_all(file) IN
        /\ l.err = "none"
        /\ save_all(l.file, l.value) = file

\* An edit without fields has just loaded and saved a document of two
\* expenses, one with a note and a currency of its own, one without.
C13_Witness ==
    /\ Returned("edit")
    /\ DOMAIN result.args = {}
    /\ result.value # NotFound
    /\ Len(file.expenses) = 2
    /\ file = result.before
    /\ \E i, j \in 1..2 : /\ file.expenses[i].note # <<>>
                          /\ file.expenses[j].note = <<>>
                          /\ file.expenses[i].currency # file.expenses[j].currency

\* C14: constructing the storage writes the document {version 1, no
\* expenses} when the file is absent and leaves a file that exists as it is;
\* a load of a missing file (here by list_expenses) writes that document again
\* and returns no expenses instead of failing.
C14_Initialization ==
    [][/\ (pc = "idle" /\ pc' = "ready") =>
              /\ file.status = "missing" =>
                     file' = [status |-> "ok", version |-> 1, expenses |-> <<>>]
              /\ file.status # "missing" => file' = file
       /\ (pc = "ready" /\ pc' = "done" /\ result'.op = "list"
               /\ file.status = "missing") =>
              /\ result'.err = "none"
              /\ result'.value = <<>>
              /\ file' = [status |-> "ok", version |-> 1, expenses |-> <<>>]]_vars

\* The file was removed after the storage was constructed, and list_expenses
\* has just returned nothing and left the initial document.
C14_Witness ==
    /\ Returned("list")
    /\ result.before.status = "missing"
    /\ result.value = <<>>
    /\ file = InitialDoc

\* The key of the request orders x strictly below y.
Below(q, x, y) ==
    IF q.sort_by = "amount" THEN x.amount < y.amount
    ELSE IF q.sort_by = "category" THEN x.category # y.category /\ StrLeq(x.category, y.category)
    ELSE x.date # y.date /\ StrLeq(x.date, y.date)

\* The expense at position i of the collection is listed before the one at
\* position j: by the key in the direction of the request, and by position
\* when the keys are equal.
ListedBefore(old, q, i, j) ==
    \/ IF q.descending THEN Below(q, old[j], old[i]) ELSE Below(q, old[i], old[j])
    \/ /\ ~Below(q, old[i], old[j])
       /\ ~Below(q, old[j], old[i])
       /\ i < j

\* C15: list_expenses returns the matching expenses ordered by the chosen key,
\* ascending or descending as requested, expenses of equal key in the order of
\* the collection in both directions, cut to the first limit of them when the
\* limit is positive.
C15_ListOrder ==
    Returned("list") =>
        LET old == result.before.expenses
            q == result.args
            r == result.value
            M == Matching(old, q)
            Pos(x) == CHOOSE i \in 1..Len(old) : old[i] = x
            Listed == {Pos(r[k]) : k \in 1..Len(r)}
        IN /\ Len(r) = IF q.limit > 0 /\ q.limit < Cardinality(M)
                       THEN q.limit ELSE Cardinality(M)
           /\ \A k \in 1..Len(r) : r[k] \in Range(old) /\ Pos(r[k]) \in M
           /\ \A k, l \in 1..Len(r) : k < l => ListedBefore(old, q, Pos(r[k]), Pos(r[l]))
           /\ \A i \in Listed : \A j \in M \ Listed : ListedBefore(old, q, i, j)

\* A descending list has just returned two expenses of equal key in the order
\* of the collection.
C15_Witness ==
    /\ Returned("list")
    /\ result.args.descending
    /\ result.args.sort_by = "category"
    /\ Len(result.value) = 2
    /\ result.value[1].category = result.value[2].category
    /\ result.value = result.before.expenses

\* C16 (as claimed): summary applies no sort: the currency label is the
\* currency of the first matching expense in the order of the stored
\* collection, and the keys of totals_by_category appear in the order in which
\* the categories are first seen in the stored collection.
C16_StoredOrder ==
    (Returned("summary") /\ result.value.count > 0) =>
        LET old == result.before.expenses
            M == Matching(old, AsQuery(result.args))
            t == result.value.totals_by_category
            First(S) == CHOOSE i \in S : \A j \in S : i <= j
            Seen(c) == First({i \in M : old[i].category = c})
        IN /\ result.value.currency = old[First(M)].currency
           /\ \A k, l \in 1..Len(t) : k < l => Seen(t[k][1]) < Seen(t[l][1])

\* C16 (amended): summary takes the matching expenses in the default order of
\* list_expenses, ascending by date with equal dates in the order of the
\* stored collection: the currency label is the currency of the first
\* matching expense in that order, and the keys of totals_by_category appear
\* in the order in which the categories are first seen in that order.
C16_DateOrder ==
    (Returned("summary") /\ result.value.count > 0) =>
        LET old == result.before.expenses
            M == Matching(old, AsQuery(result.args))
            t == result.value.totals_by_category
            Earlier(i, j) == ListedBefore(old, NoFilter, i, j)
            First(S) == CHOOSE i \in S : \A j \in S \ {i} : Earlier(i, j)
            Seen(c) == First({i \in M : old[i].category = c})
        IN /\ result.value.currency = old[First(M)].currency
           /\ \A k, l \in 1..Len(t) : k < l => Earlier(Seen(t[k][1]), Seen(t[l][1]))

\* A summary has just labelled its totals with the currency of the second
\* stored expense, whose date is the earlier one, and lists its category first.
C16_Witness ==
    /\ Returned("summary")
    /\ result.value.count = 2
    /\ Len(result.value.totals_by_category) = 2
    /\ result.value.currency = result.before.expenses[2].currency
    /\ result.value.currency # result.before.expenses[1].currency
    /\ result.value.totals_by_category[1][1] = result.before.expenses[2].category

(***************************************************************************)
(* Properties of the sequence numbers.                                     *)
(***************************************************************************)
\* The date digits of an id: the part before its sequence number.
IdDate(id) ==
    LET parts == SplitDash(id) IN
    IF Len(parts) < 2 THEN <<>> ELSE parts[Len(parts) - 1]

\* C18 (as claimed): no two persisted expenses with the same date field carry
\* the same sequence number in their ids.
C18_UniquePerDateField ==
    \A i, j \in 1..Len(file.expenses) :
        (i # j /\ file.expenses[i].date = file.expenses[j].date) =>
            SeqOf(file.expenses[i].id) # SeqOf(file.expenses[j].id)

\* C18 (amended): no two persisted expenses whose ids carry the same date
\* digits carry the same sequence number.
C18_UniquePerIdDate ==
    \A i, j \in 1..Len(file.expenses) :
        (i # j /\ IdDate(file.expenses[i].id) = IdDate(file.expenses[j].id)) =>
            SeqOf(file.expenses[i].id) # SeqOf(file.expenses[j].id)

\* An edit has just moved one of two expenses numbered for one date to
\* another date.
C18_Witness ==
    /\ Returned("edit")
    /\ "date" \in DOMAIN result.args
    /\ result.value # NotFound
    /\ Len(file.expenses) = 2
    /\ IdDate(file.expenses[1].id) = IdDate(file.expenses[2].id)
    /\ file.expenses[1].date # file.expenses[2].date

(***************************************************************************)
(* Properties of two concurrent invocations of add.                        *)
(***************************************************************************)
BothAdded == \A p \in Procs : procs[p].at = "done"

\* C17: when two concurrent add_expense calls have both completed
\* successfully, the file holds what the later save wrote: both new records
\* when the later saver had loaded after the other's save, and only one of the
\* two, a lost update, when both had loaded before either saved.
C17_LostUpdate ==
    BothAdded =>
        /\ \E p \in Procs :
               file.expenses = Append(procs[p].loaded, procs[p].expense[1])
        /\ Len(file.expenses) \in {1, 2}
        /\ Len(file.expenses) = 1 <=> \A p \in Procs : procs[p].loaded = <<>>

\* Both calls have completed successfully and the file holds the new record
\* of one of them only.
C17_Witness ==
    /\ BothAdded
    /\ Len(file.expenses) = 1
    /\ \E p, q \in Procs :
           /\ procs[p].expense[1] \in Range(file.expenses)
           /\ procs[q].expense[1] \notin Range(file.expenses)

====
